---- MODULE Spec2Model ----
(***************************************************************************)
(* LibrandaClient (src/src/index.js): a WebSocket session manager with a   *)
(* reconnect timer, a namespaced event registry, an identity handshake and *)
(* a plugin host.                                                          *)
(*                                                                         *)
(* The WebSocket transport and the timer service are the environment:      *)
(*  - a transport is created CONNECTING; it may emit open (-> OPEN), start *)
(*    its closing handshake (-> CLOSING, no callback), emit error (no      *)
(*    change of readyState) and finally emit close (-> CLOSED), once;      *)
(*    close() called by the client moves it to CLOSING at once and its     *)
(*    close event is delivered later; messages are delivered while OPEN;   *)
(*  - setTimeout returns a fresh handle, the timer stays pending until it  *)
(*    fires or is cleared with clearTimeout.                               *)
(* The four callbacks the client installs on a transport are closures over *)
(* the client, not over the transport: they act on the session whichever   *)
(* transport emits the event.                                              *)
(* Application callbacks (event handlers, ready callbacks, plugin          *)
(* initialize/cleanup) are modelled by their outcome: they return or they  *)
(* throw; they do not call back into the client.                           *)
(***************************************************************************)
EXTENDS Integers, Sequences, FiniteSets, TLC

\* ---------------------------------------------------------------- bounds
MaxTransports == 3      \* transports created by new WebSocketImpl(url) in one run

\* ------------------------------------------------------------- JS values
Null      == "<null>"
Undefined == "<undefined>"
NoWs      == 0          \* this.ws === null
NoTimer   == 0          \* this.reconnectTimer === null

\* JS truthiness of the values the model uses (strings, null, undefined)
Truthy(v) == v \notin {Null, Undefined, ""}

EmptyMap == [x \in {} |-> x]

NullData  == [kind |-> "null",   clientId |-> Undefined]
ErrorData == [kind |-> "object", clientId |-> Undefined]

VARIABLES
    transports,      \* sequence of readyStates, one per transport ever created
    ws,              \* this.ws: index into transports, or NoWs
    isConnecting,    \* this.isConnecting
    autoReconnect,   \* this.autoReconnect
    reconnectTimer,  \* this.reconnectTimer: a timer handle, or NoTimer
    timers,          \* handles of the timers that are pending in the timer service
    nextTimer,       \* the handle the next setTimeout returns
    clientId,        \* this.clientId
    onReady,         \* this.onReady
    eventHandlers,   \* this.eventHandlers: namespace -> (event -> sequence of callbacks)
    plugins,         \* this.plugins: sequence of plugin objects, in insertion order
    metadata,        \* this.metadata
    sent,            \* what ws.send() was given, in order, with the transport it went to
    op,              \* the operation or reaction that ran last
    trace,           \* what that operation did that is visible outside, in order
    thrown,          \* the exception that escaped it, or "none"
    userDisconnected, \* disconnect() was called and connect() not called since
    readyArmed       \* ready() stored a callback that no system:init has invoked yet

conn    == <<transports, ws, isConnecting, autoReconnect, reconnectTimer, timers, nextTimer,
             sent>>
session == <<clientId, onReady, eventHandlers, plugins, metadata, readyArmed>>
vars    == <<transports, ws, isConnecting, autoReconnect, reconnectTimer, timers,
             nextTimer, clientId, onReady, eventHandlers, plugins, metadata, sent,
             op, trace, thrown, userDisconnected, readyArmed>>

\* op: name of the operation; t, the transport it concerns; created, whether it
\* created a transport; cleared, whether its clearTimeout cancelled a pending timer
Op(name, t, created, cleared) ==
    [name |-> name, t |-> t, created |-> created, cleared |-> cleared]

\* ------------------------------------------------------------ constructor
Init ==
    /\ transports = <<>>
    /\ ws = NoWs
    /\ isConnecting = FALSE
    /\ autoReconnect \in BOOLEAN          \* options.autoReconnect !== false
    /\ reconnectTimer = NoTimer
    /\ timers = {}
    /\ nextTimer = 1
    /\ clientId = Null
    /\ onReady = Null
    /\ eventHandlers = EmptyMap
    /\ plugins = <<>>
    /\ metadata = EmptyMap
    /\ sent = <<>>
    /\ op = Op("new", 0, FALSE, FALSE)
    /\ trace = <<>>
    /\ thrown = "none"
    /\ userDisconnected = FALSE
    /\ readyArmed = FALSE

\* ------------------------------------------------------- event registry
ThrowingCallbacks == {"hx", "rx", "boom"}
Throws(cb) == cb \in ThrowingCallbacks

\* one invocation of an application callback, as seen from outside; getId is
\* what getId() returns to the callback, this.clientId at the time of the call
CallAt(id, kind, who, ns, ev, data) ==
    [kind |-> kind, who |-> who, ns |-> ns, ev |-> ev, data |-> data,
     threw |-> Throws(who), getId |-> id]

Call(kind, who, ns, ev, data) == CallAt(clientId, kind, who, ns, ev, data)

\* _handleEvent, entered while this.clientId is id: the invocations it makes, in
\* the Set's order; each is wrapped in try/catch
HandleEventAt(id, ns, ev, data) ==
    IF ns \notin DOMAIN eventHandlers THEN <<>>
    ELSE IF ev \notin DOMAIN eventHandlers[ns] THEN <<>>
    ELSE LET eventCallbacks == eventHandlers[ns][ev]
         IN  [i \in 1..Len(eventCallbacks) |->
                 CallAt(id, "handler", eventCallbacks[i], ns, ev, data)]

HandleEvent(ns, ev, data) == HandleEventAt(clientId, ns, ev, data)

\* ------------------------------------------------------------- connect()
Live(t) == t # NoWs /\ transports[t] \in {"CONNECTING", "OPEN"}

\* connect() with its first early return (the readyState test) left out
ConnectReturnsEarly_FlagOnly == isConnecting

\* the two early returns of connect()
ConnectReturnsEarly == Live(ws) \/ isConnecting

\* connect(): the body shared by the application's call and the timer's call
ConnectBody ==
    IF ConnectReturnsEarly
    THEN UNCHANGED <<transports, ws, isConnecting>>
    ELSE /\ isConnecting' = TRUE
         /\ transports' = Append(transports, "CONNECTING")
         /\ ws' = Len(transports) + 1

CanConnect == ConnectReturnsEarly \/ Len(transports) < MaxTransports

Connect ==
    /\ CanConnect
    /\ ConnectBody
    /\ op' = Op("connect", ws', ~ConnectReturnsEarly, FALSE)
    /\ trace' = <<>>
    /\ thrown' = "none"
    /\ userDisconnected' = FALSE
    /\ UNCHANGED <<autoReconnect, reconnectTimer, timers, nextTimer, session, sent>>

\* the reconnect timer fires: () => this.connect()
TimerFire ==
    \E h \in timers :
        /\ CanConnect
        /\ timers' = timers \ {h}
        /\ ConnectBody
        /\ op' = Op("timer", ws', ~ConnectReturnsEarly, FALSE)
        /\ trace' = <<>>
        /\ thrown' = "none"
        /\ UNCHANGED <<autoReconnect, reconnectTimer, nextTimer, session, userDisconnected, sent>>

\* ------------------------------------------------------ transport events
\* ws.onopen
OpenOn(t) ==
    /\ transports[t] = "CONNECTING"
    /\ transports' = [transports EXCEPT ![t] = "OPEN"]
    /\ isConnecting' = FALSE
    /\ IF reconnectTimer # NoTimer
       THEN /\ timers' = timers \ {reconnectTimer}
            /\ reconnectTimer' = NoTimer
       ELSE UNCHANGED <<timers, reconnectTimer>>
    /\ op' = Op("open", t, FALSE, reconnectTimer \in timers)
    /\ trace' = HandleEvent("system", "connected", NullData)
    /\ thrown' = "none"
    /\ UNCHANGED <<ws, autoReconnect, nextTimer, session, userDisconnected, sent>>

Open == \E t \in 1..Len(transports) : OpenOn(t)

\* the transport starts closing without the client asking (closing handshake
\* started by the peer, or a failed handshake): readyState CLOSING, no callback
ClosingOn(t) ==
    /\ transports[t] \in {"CONNECTING", "OPEN"}
    /\ transports' = [transports EXCEPT ![t] = "CLOSING"]
    /\ op' = Op("closing", t, FALSE, FALSE)
    /\ trace' = <<>>
    /\ thrown' = "none"
    /\ UNCHANGED <<ws, isConnecting, autoReconnect, reconnectTimer, timers,
                   nextTimer, session, userDisconnected, sent>>

Closing == \E t \in 1..Len(transports) : ClosingOn(t)

\* ws.onclose that retries only a connection that had opened
CloseSchedules_NotAfterFailedAttempt == autoReconnect /\ ~isConnecting

\* whether ws.onclose schedules the reconnect timer
CloseSchedules == autoReconnect

\* ws.onclose
CloseOn(t) ==
    /\ transports[t] # "CLOSED"
    /\ transports' = [transports EXCEPT ![t] = "CLOSED"]
    /\ isConnecting' = FALSE
    /\ clientId' = Null
    /\ IF CloseSchedules
       THEN /\ reconnectTimer' = nextTimer
            /\ timers' = timers \cup {nextTimer}
            /\ nextTimer' = nextTimer + 1
       ELSE UNCHANGED <<reconnectTimer, timers, nextTimer>>
    /\ op' = Op("close", t, FALSE, FALSE)
    /\ trace' = HandleEventAt(Null, "system", "disconnected", NullData)
    /\ thrown' = "none"
    /\ UNCHANGED <<ws, autoReconnect, onReady, eventHandlers, plugins, metadata,
                   userDisconnected, readyArmed, sent>>

Close == \E t \in 1..Len(transports) : CloseOn(t)

\* an error handler that tells nobody
ErrorDispatch_Silent == <<>>

\* this._handleEvent("system", "error", error)
ErrorDispatch == HandleEvent("system", "error", ErrorData)

\* ws.onerror
Error ==
    \E t \in 1..Len(transports) :
        /\ transports[t] # "CLOSED"
        /\ op' = Op("error", t, FALSE, FALSE)
        /\ trace' = ErrorDispatch
        /\ thrown' = "none"
        /\ UNCHANGED <<conn, session, userDisconnected>>

\* ---------------------------------------------------------- plugin host
\* the plugin objects the application registers: initialize and cleanup are
\* absent ("none"), a function that returns, or a function that throws
PluginObjects ==
    { [id |-> Undefined, initialize |-> "returns", cleanup |-> "returns"],
      [id |-> "",  initialize |-> "returns", cleanup |-> "returns"],
      [id |-> "p", initialize |-> "returns", cleanup |-> "returns"],
      [id |-> "p", initialize |-> "none",    cleanup |-> "throws"],
      [id |-> "q", initialize |-> "throws",  cleanup |-> "none"],
      [id |-> "q", initialize |-> "none",    cleanup |-> "returns"] }

PluginIds == {p.id : p \in PluginObjects}

PluginCall(kind, plugin, how) ==
    [kind |-> kind, who |-> plugin.id, ns |-> "", ev |-> "", data |-> NullData,
     threw |-> (how = "throws")]

HasPlugin(ps, id) == \E i \in 1..Len(ps) : ps[i].id = id

\* unregisterPlugin(pluginId): the invocations it makes (cleanup, inside try/catch)
UnregisterCalls(ps, id) ==
    IF ~HasPlugin(ps, id) THEN <<>>
    ELSE LET plugin == ps[CHOOSE i \in 1..Len(ps) : ps[i].id = id]
         IN  IF plugin.cleanup = "none" THEN <<>>
             ELSE <<PluginCall("cleanup", plugin, plugin.cleanup)>>

\* unregisterPlugin(pluginId): the registry it leaves
UnregisterLeaves(ps, id) == SelectSeq(ps, LAMBDA p : p.id # id)

\* the loop of disconnect(): for (const [pluginId] of this.plugins)
\* this.unregisterPlugin(pluginId). Deleting the entry being visited does not
\* disturb the iteration of a Map, so every entry is visited, in insertion order.
RECURSIVE TeardownCalls(_)
TeardownCalls(ps) ==
    IF ps = <<>> THEN <<>>
    ELSE UnregisterCalls(ps, ps[1].id) \o TeardownCalls(UnregisterLeaves(ps, ps[1].id))

\* whether disconnect() enters its `if (this.ws)` block
DisconnectHasTransport == ws # NoWs

\* WebSocket.close(): a transport that is connecting or open starts closing
CloseTransport(ts, t) ==
    IF ts[t] \in {"CONNECTING", "OPEN"} THEN [ts EXCEPT ![t] = "CLOSING"] ELSE ts

\* disconnect()
Disconnect ==
    /\ IF reconnectTimer # NoTimer
       THEN /\ timers' = timers \ {reconnectTimer}
            /\ reconnectTimer' = NoTimer
       ELSE UNCHANGED <<timers, reconnectTimer>>
    /\ IF DisconnectHasTransport
       THEN /\ autoReconnect' = FALSE
            /\ transports' = CloseTransport(transports, ws)
            /\ ws' = NoWs
            /\ clientId' = Null
            /\ trace' = TeardownCalls(plugins)
            /\ plugins' = <<>>
       ELSE /\ trace' = <<>>
            /\ UNCHANGED <<autoReconnect, transports, ws, clientId, plugins>>
    /\ op' = Op("disconnect", ws, FALSE, reconnectTimer \in timers)
    /\ thrown' = "none"
    /\ userDisconnected' = TRUE
    /\ UNCHANGED <<isConnecting, nextTimer, onReady, eventHandlers, metadata, readyArmed, sent>>

\* a registry that is never asked
AlreadyRegistered_NotAsked(id) == FALSE

\* this.plugins.has(plugin.id)
AlreadyRegistered(id) == HasPlugin(plugins, id)

\* registerPlugin(plugin)
RegisterPlugin ==
    \E plugin \in PluginObjects :
        /\ op' = [name |-> "registerPlugin", t |-> 0, created |-> FALSE, cleared |-> FALSE,
                 plugin |-> plugin]
        /\ IF ~Truthy(plugin.id)
           THEN /\ thrown' = "Plugin must have an id property"
                /\ trace' = <<>>
                /\ UNCHANGED plugins
           ELSE IF AlreadyRegistered(plugin.id)
           THEN /\ thrown' = "Plugin is already registered"
                /\ trace' = <<>>
                /\ UNCHANGED plugins
           ELSE /\ plugins' = Append(plugins, plugin)
                /\ trace' = IF plugin.initialize = "none" THEN <<>>
                            ELSE <<PluginCall("initialize", plugin, plugin.initialize)>>
                /\ thrown' = IF plugin.initialize = "throws"
                             THEN "initialize failed" ELSE "none"
        /\ UNCHANGED <<conn, clientId, onReady, eventHandlers, metadata, userDisconnected,
                       readyArmed>>

\* unregisterPlugin(pluginId), called by the application or through the
\* function registerPlugin returned
UnregisterPlugin ==
    \E id \in PluginIds :
        /\ op' = [name |-> "unregisterPlugin", t |-> 0, created |-> FALSE,
                 cleared |-> FALSE, id |-> id]
        /\ trace' = UnregisterCalls(plugins, id)
        /\ plugins' = UnregisterLeaves(plugins, id)
        /\ thrown' = "none"
        /\ UNCHANGED <<conn, clientId, onReady, eventHandlers, metadata, userDisconnected,
                       readyArmed>>

\* -------------------------------------------------------- event registry
\* the (namespace, event) pairs the application registers handlers for
Registrations == {<<"system", "init">>, <<"chat", "msg">>}
Callbacks     == {"h1", "hx"}       \* hx throws

\* an array push in the place of Set.add
SetAdd_Push(seq, x) == Append(seq, x)

\* Set.add: a Set keeps insertion order and holds a value once
SetAdd(seq, x) == IF \E i \in 1..Len(seq) : seq[i] = x THEN seq ELSE Append(seq, x)

\* Set.delete
SetDelete(seq, x) == SelectSeq(seq, LAMBDA y : y # x)

\* registerEvent(namespace, event, callback): the registry it leaves
Registered(ns, ev, cb) ==
    LET withNs == IF ns \in DOMAIN eventHandlers THEN eventHandlers
                  ELSE [n \in DOMAIN eventHandlers \cup {ns} |->
                           IF n = ns THEN EmptyMap ELSE eventHandlers[n]]
        namespaceHandlers == withNs[ns]
        withEv == IF ev \in DOMAIN namespaceHandlers THEN namespaceHandlers
                  ELSE [e \in DOMAIN namespaceHandlers \cup {ev} |->
                           IF e = ev THEN <<>> ELSE namespaceHandlers[e]]
    IN  [withNs EXCEPT ![ns] = [withEv EXCEPT ![ev] = SetAdd(withEv[ev], cb)]]

\* registerEvent(namespace, event, callback), the pair drawn from regs
RegisterEventOf(regs) ==
    \E reg \in regs, cb \in Callbacks :
        /\ eventHandlers' = Registered(reg[1], reg[2], cb)
        /\ op' = [name |-> "registerEvent", t |-> 0, created |-> FALSE, cleared |-> FALSE,
                 ns |-> reg[1], ev |-> reg[2], cb |-> cb]
        /\ trace' = <<>>
        /\ thrown' = "none"
        /\ UNCHANGED <<conn, clientId, onReady, plugins, metadata, userDisconnected,
                       readyArmed>>

RegisterEvent == RegisterEventOf(Registrations)

\* the application listens to the transport's errors, or to its closes
RegisterErrorEvent        == RegisterEventOf({<<"system", "error">>})
RegisterDisconnectedEvent == RegisterEventOf({<<"system", "disconnected">>})

\* the function registerEvent returned: () => eventCallbacks.delete(callback).
\* It exists for (ns, ev, cb) once registerEvent(ns, ev, cb) was called, and the
\* Set it closes over stays in the registry for ever.
UnregisterEvent ==
    \E ns \in DOMAIN eventHandlers :
        \E ev \in DOMAIN eventHandlers[ns], cb \in Callbacks :
            /\ eventHandlers' =
                   [eventHandlers EXCEPT ![ns][ev] = SetDelete(eventHandlers[ns][ev], cb)]
            /\ op' = [name |-> "unregisterEvent", t |-> 0, created |-> FALSE,
                     cleared |-> FALSE, ns |-> ns, ev |-> ev, cb |-> cb]
            /\ trace' = <<>>
            /\ thrown' = "none"
            /\ UNCHANGED <<conn, clientId, onReady, plugins, metadata, userDisconnected,
                           readyArmed>>

\* ---------------------------------------------------- identity handshake
ReadyCallbacks == {"r1", "rx"}      \* rx throws

\* a ready() that always stores its callback
ReadyCallsNow_Never == FALSE

\* if (this.clientId)
ReadyCallsNow == Truthy(clientId)

\* ready(callback)
Ready ==
    \E cb \in ReadyCallbacks :
        /\ op' = [name |-> "ready", t |-> 0, created |-> FALSE, cleared |-> FALSE,
                 cb |-> cb]
        /\ IF ReadyCallsNow
           THEN /\ trace' = <<Call("ready", cb, "", "", [kind |-> "id", clientId |-> clientId])>>
                /\ thrown' = IF Throws(cb) THEN "callback failed" ELSE "none"
                /\ UNCHANGED <<onReady, readyArmed>>
           ELSE /\ onReady' = cb
                /\ readyArmed' = TRUE
                /\ trace' = <<>>
                /\ thrown' = "none"
        /\ UNCHANGED <<conn, clientId, eventHandlers, plugins, metadata, userDisconnected>>

\* ------------------------------------------------------ inbound messages
\* What the transport hands to ws.onmessage as event.data: a text. A text is
\* described by what JSON.parse makes of it: `json` is whether it parses,
\* `object` whether the parsed value is an object (otherwise it is null), and
\* the three fields are the object's properties (Undefined when absent).
Text(json, object, ns, ev, data) ==
    [json |-> json, object |-> object, namespace |-> ns, event |-> ev, data |-> data]

IdData(id) == [kind |-> "object", clientId |-> id]

Payloads ==
    { Text(FALSE, FALSE, Undefined, Undefined, NullData),        \* not JSON
      Text(TRUE,  FALSE, Undefined, Undefined, NullData),        \* null
      Text(TRUE,  TRUE,  Undefined, "init",    IdData("a")),     \* no namespace
      Text(TRUE,  TRUE,  "system",  Undefined, IdData("a")),     \* no event
      Text(TRUE,  TRUE,  "",        "init",    IdData("a")),     \* empty namespace
      Text(TRUE,  TRUE,  "system",  "init",    IdData("a")),
      Text(TRUE,  TRUE,  "system",  "init",    IdData("b")),
      Text(TRUE,  TRUE,  "system",  "init",    NullData),        \* init without data
      Text(TRUE,  TRUE,  "chat",    "msg",     IdData("a")),
      Text(TRUE,  TRUE,  "chat",    "msg",     NullData) }

\* JSON.parse(event.data)
JSONparse(text) ==
    IF text.json
    THEN [ok |-> TRUE,
          message |-> [object |-> text.object, namespace |-> text.namespace,
                       event |-> text.event, data |-> text.data]]
    ELSE [ok |-> FALSE, message |-> Undefined]

ConsoleError == [kind |-> "console.error", who |-> "", ns |-> "", ev |-> "",
                 data |-> NullData, threw |-> FALSE, getId |-> Undefined]

\* message.namespace && message.event
HasNamespaceAndEvent(message) == Truthy(message.namespace) /\ Truthy(message.event)

IsInit(message) == message.namespace = "system" /\ message.event = "init"

\* the ready callback's invocation at system:init, when one is stored
ReadyCalls(id) ==
    IF Truthy(onReady)
    THEN <<CallAt(id, "ready", onReady, "", "", [kind |-> "id", clientId |-> id])>>
    ELSE <<>>

\* ws.onmessage dispatching a system:init frame before it stores the clientId
IdSeenByInitHandlers_DispatchFirst(message) == clientId

\* this.clientId when _handleEvent runs for a system:init frame: the assignment
\* of message.data.clientId comes first
IdSeenByInitHandlers(message) == message.data.clientId

\* ws.onmessage, the body of its try block: [clientId, trace, completed]
\* where completed = FALSE when an exception reached the catch clause
OnMessage(text) ==
    LET parsed  == JSONparse(text)
        message == parsed.message
        forward == HandleEvent(message.namespace, message.event, message.data)
        forwardInit == HandleEventAt(IdSeenByInitHandlers(message), message.namespace,
                                     message.event, message.data)
    IN  IF ~parsed.ok THEN
            [clientId |-> clientId, trace |-> <<>>, completed |-> FALSE]
        ELSE IF ~message.object THEN                 \* null.namespace: TypeError
            [clientId |-> clientId, trace |-> <<>>, completed |-> FALSE]
        ELSE IF ~HasNamespaceAndEvent(message) THEN
            [clientId |-> clientId, trace |-> <<>>, completed |-> TRUE]
        ELSE IF ~IsInit(message) THEN
            [clientId |-> clientId, trace |-> forward, completed |-> TRUE]
        ELSE IF message.data.kind = "null" THEN      \* null.clientId: TypeError
            [clientId |-> clientId, trace |-> <<>>, completed |-> FALSE]
        ELSE IF Truthy(onReady) /\ Throws(onReady) THEN
            [clientId |-> message.data.clientId,
             trace |-> ReadyCalls(message.data.clientId), completed |-> FALSE]
        ELSE
            [clientId |-> message.data.clientId,
             trace |-> ReadyCalls(message.data.clientId) \o forwardInit,
             completed |-> TRUE]

\* ws.onmessage without its try/catch
MessageRaises_NoCatch(completed) == IF completed THEN "none" ELSE "Error"

\* what escapes ws.onmessage: its catch clause logs whatever the try block throws
MessageRaises(completed) == "none"

\* ws.onmessage
Message ==
    \E t \in 1..Len(transports), text \in Payloads :
        /\ transports[t] = "OPEN"
        /\ LET r == OnMessage(text)
           IN  /\ clientId' = r.clientId
               /\ trace' = IF r.completed THEN r.trace ELSE Append(r.trace, ConsoleError)
               /\ readyArmed' =
                      IF \E i \in 1..Len(r.trace) : r.trace[i].kind = "ready"
                      THEN FALSE ELSE readyArmed
        /\ op' = [name |-> "message", t |-> t, created |-> FALSE, cleared |-> FALSE,
                text |-> text]
        /\ thrown' = MessageRaises(OnMessage(text).completed)
        /\ UNCHANGED <<conn, onReady, eventHandlers, plugins, metadata, userDisconnected>>

\* ------------------------------------------------------------- metadata
MetadataArgs == {[a |-> "1", b |-> "2"], [a |-> "3"]}

\* { ...left, ...right }: the keys of both, right's value where both have one
Spread(left, right) ==
    [k \in DOMAIN left \cup DOMAIN right |->
        IF k \in DOMAIN right THEN right[k] ELSE left[k]]

\* setMetadata(metadata)
SetMetadata ==
    \E arg \in MetadataArgs :
        /\ metadata' = Spread(metadata, arg)
        /\ op' = [name |-> "setMetadata", t |-> 0, created |-> FALSE, cleared |-> FALSE,
                 arg |-> arg]
        /\ trace' = <<>>
        /\ thrown' = "none"
        /\ UNCHANGED <<conn, clientId, onReady, eventHandlers, plugins, readyArmed,
                       userDisconnected>>

\* getMetadata(): a copy of the map
GetMetadata == Spread(EmptyMap, metadata)

\* ----------------------------------------------------------------- send
MaxSent == 1

\* the data argument: left out, or an object with a key whose value is
\* undefined and a metadata key of its own
SendArgs ==
    { [given |-> FALSE, value |-> EmptyMap],
      [given |-> TRUE,
       value |-> [text |-> "hi", extra |-> Undefined, metadata |-> [a |-> "mine"]]] }

\* data = {}: the default stands in for an argument that was not given
DataOrDefault(arg) == IF arg.given THEN arg.value ELSE EmptyMap

\* the caller's keys first
FrameData_CallerWins(data) == Spread([metadata |-> metadata], data)

\* { ...data, metadata: this.metadata }
FrameData(data) == Spread(data, [metadata |-> metadata])

\* JSON.stringify of { namespace, event, data }: a key whose value is undefined
\* is left out of the text
JSONstringify(message) ==
    [namespace |-> message.namespace,
     event     |-> message.event,
     data      |-> [k \in {j \in DOMAIN message.data :
                              j = "metadata" \/ message.data[j] # Undefined}
                        |-> message.data[k]]]

\* the guard on any transport handle, whatever its readyState
SendNotConnected_NoHandle == ws = NoWs

\* !this.ws || this.ws.readyState !== WebSocketImpl.OPEN
SendNotConnected == ws = NoWs \/ transports[ws] # "OPEN"

\* send(namespace, event, data = {})
Send ==
    \E arg \in SendArgs :
        /\ op' = Op("send", ws, FALSE, FALSE)
        /\ trace' = <<>>
        /\ IF SendNotConnected
           THEN /\ thrown' = "WebSocket is not connected"
                /\ UNCHANGED sent
           ELSE /\ Len(sent) < MaxSent
                /\ sent' = Append(sent,
                       [t |-> ws,
                        text |-> JSONstringify([namespace |-> "chat", event |-> "msg",
                                                data |-> FrameData(DataOrDefault(arg))])])
                /\ thrown' = "none"
        /\ UNCHANGED <<transports, ws, isConnecting, autoReconnect, reconnectTimer, timers,
                       nextTimer, session, userDisconnected>>

ConnNext == Connect \/ Disconnect \/ TimerFire \/ Open \/ Closing \/ Close \/ Error

Next == ConnNext

Spec == Init /\ [][Next]_vars

\* the plugin host over the connection lifecycle
PluginNext == ConnNext \/ RegisterPlugin \/ UnregisterPlugin

PluginSpec == Init /\ [][PluginNext]_vars

\* the message reaction, the registry and the handshake over a session that
\* the application connects, disconnects and connects again
MessageNext ==
    \/ Connect \/ Open \/ Disconnect
    \/ RegisterEvent \/ UnregisterEvent
    \/ Ready
    \/ Message

MessageSpec == Init /\ [][MessageNext]_vars

\* outbound frames and the metadata map over a session that connects, opens,
\* closes and is disconnected
SendNext ==
    \/ Connect \/ Open \/ Close \/ Disconnect
    \/ SetMetadata
    \/ Send

SendSpec == Init /\ [][SendNext]_vars

\* the connection lifecycle with an application that listens to system:error
ErrorNext == ConnNext \/ RegisterErrorEvent

ErrorSpec == Init /\ [][ErrorNext]_vars

\* a session that is disconnected and connected again by the application,
\* with an application that listens to system:disconnected. Without Closing, a
\* transport that is not this.ws and has not emitted close yet is one that
\* disconnect() closed and dropped.
StaleCloseNext ==
    \/ Connect \/ Open \/ Close \/ Disconnect
    \/ Message
    \/ RegisterDisconnectedEvent

StaleCloseSpec == Init /\ [][StaleCloseNext]_vars

\* the connection lifecycle with the identity handshake
SessionNext == ConnNext \/ Message

SessionSpec == Init /\ [][SessionNext]_vars

\* ======================================================================
\* Properties of the connection lifecycle (Spec)
\* ======================================================================

\* C1: after an explicit disconnect(), a new transport is created only by a
\* connect() call the application makes after that disconnect(); the reconnect
\* timer never creates one.
C1_NoReconnectAfterDisconnect ==
    [][(userDisconnected /\ Len(transports') > Len(transports))
          => op'.name = "connect"]_vars

\* C2: in every reachable state at most one reconnect timer is pending.
C2_AtMostOnePendingTimer == Cardinality(timers) <= 1

LiveTransports == {t \in 1..Len(transports) : Live(t)}

\* the session is Connecting (an attempt is under way) or Connected (isConnected())
Busy == isConnecting \/ Live(ws)

\* C3: at most one transport is connecting or open at any time, and a connect()
\* call (by the application or by the timer) made while the session is
\* Connecting or Connected creates no transport and changes no state.
C3_OneLiveTransport ==
    /\ [](Cardinality(LiveTransports) <= 1)
    /\ [][(op'.name \in {"connect", "timer"} /\ Busy)
             => UNCHANGED <<transports, ws, isConnecting, autoReconnect,
                            reconnectTimer, nextTimer, session, sent>>]_vars

\* C3 witness: the timer called connect() while an attempt of the application
\* was under way, next to a transport that already closed.
C3_Witness ==
    /\ op.name = "timer" /\ ~op.created
    /\ Live(ws) /\ ws > 1
    /\ transports[1] = "CLOSED"

\* C7: once disconnect() has been called, in any state, autoReconnect is false
\* and stays false.
C7_DisconnectTurnsAutoReconnectOff ==
    [][/\ op'.name = "disconnect" => ~autoReconnect'
       /\ ~autoReconnect => ~autoReconnect']_vars

\* C8: after disconnect(), the next connect() call creates a new transport and
\* leaves the session Connecting, whatever the state was at disconnect().
C8_ConnectAfterDisconnectStarts ==
    [][(userDisconnected /\ op'.name = "connect")
          => (op'.created /\ isConnecting' /\ ws' # NoWs
              /\ transports'[ws'] = "CONNECTING")]_vars

\* ======================================================================
\* Properties of the plugin host (PluginSpec)
\* ======================================================================
IsConnected == ws # NoWs /\ transports[ws] = "OPEN"

CleanupCount(tr, id) ==
    Cardinality({i \in 1..Len(tr) : tr[i].kind = "cleanup" /\ tr[i].who = id})

\* C6: disconnect(), in any state, invokes the cleanup of every registered
\* plugin exactly once and leaves the registry empty, clientId null and
\* isConnected() false.
C6_DisconnectTearsDownPlugins ==
    [][op'.name = "disconnect"
          => /\ plugins' = <<>>
             /\ clientId' = Null
             /\ ~IsConnected'
             /\ \A i \in 1..Len(plugins) :
                    plugins[i].cleanup # "none"
                        => CleanupCount(trace', plugins[i].id) = 1]_vars

\* C15: registerPlugin() of a plugin whose id is absent or empty, or is the id
\* of a registered plugin, throws, invokes no initialize and changes nothing,
\* so the plugin registered first under the id stays; no two entries of the
\* registry have one id; unregisterPlugin() of an id that is not registered
\* throws nothing, invokes nothing and changes nothing.
C15_RejectedRegistrationChangesNothing ==
    [][/\ (op'.name = "registerPlugin"
            /\ (~Truthy(op'.plugin.id) \/ HasPlugin(plugins, op'.plugin.id)))
          => /\ thrown' # "none"
             /\ trace' = <<>>
             /\ UNCHANGED <<conn, session>>
       /\ (op'.name = "unregisterPlugin" /\ ~HasPlugin(plugins, op'.id))
          => /\ thrown' = "none"
             /\ trace' = <<>>
             /\ UNCHANGED <<conn, session>>
       /\ \A i, j \in 1..Len(plugins') :
              plugins'[i].id = plugins'[j].id => i = j]_vars

\* C15 witness: a second plugin was offered under the id of a registered one
\* and was rejected; the first is still the one registered.
C15_Witness ==
    /\ op.name = "registerPlugin"
    /\ thrown = "Plugin is already registered"
    /\ Len(plugins) >= 1
    /\ op.plugin.id = plugins[1].id
    /\ op.plugin # plugins[1]

PluginFailed(tr) ==
    \E i \in 1..Len(tr) : tr[i].kind \in {"initialize", "cleanup"} /\ tr[i].threw

\* C16: when a plugin's initialize throws in registerPlugin(), or a plugin's
\* cleanup throws in unregisterPlugin() or disconnect(), nothing is thrown to
\* the caller, the cleanup of every other plugin that disconnect() tears down
\* still runs, and the registry is left whole: empty after disconnect(),
\* without the plugin after unregisterPlugin(), and without a plugin whose
\* registration failed.
C16_PluginFailureIsContained ==
    [][(op'.name \in {"registerPlugin", "unregisterPlugin", "disconnect"}
            /\ PluginFailed(trace'))
          => /\ thrown' = "none"
             /\ op'.name = "disconnect"
                  => /\ plugins' = <<>>
                     /\ \A i \in 1..Len(plugins) :
                            plugins[i].cleanup # "none"
                                => CleanupCount(trace', plugins[i].id) = 1
             /\ op'.name = "unregisterPlugin"
                  => plugins' = SelectSeq(plugins, LAMBDA p : p.id # op'.id)
             /\ op'.name = "registerPlugin"
                  => plugins' = plugins]_vars

\* ======================================================================
\* Properties of the message reaction (MessageSpec)
\* ======================================================================
ReadyCallsIn(tr)   == SelectSeq(tr, LAMBDA c : c.kind = "ready")
HandlerCallsIn(tr) == SelectSeq(tr, LAMBDA c : c.kind = "handler")

\* the text parses and the frame has a namespace and an event
ValidFrame(text) ==
    text.json /\ text.object /\ Truthy(text.namespace) /\ Truthy(text.event)

\* a system:init frame that carries { clientId: string }
WellFormedInit(text) ==
    /\ ValidFrame(text)
    /\ text.namespace = "system" /\ text.event = "init"
    /\ text.data.kind = "object" /\ Truthy(text.data.clientId)

\* C5: a callback stored by ready() is invoked by the first system:init frame
\* that follows, with that frame's clientId, and by no later frame.
C5_ReadyFiresExactlyOnce ==
    [][op'.name = "message"
          => /\ ReadyCallsIn(trace') # <<>> => readyArmed
             /\ (readyArmed /\ WellFormedInit(op'.text))
                    => ReadyCallsIn(trace') =
                           <<CallAt(op'.text.data.clientId, "ready", onReady, "", "",
                                    [kind |-> "id", clientId |-> op'.text.data.clientId])>>]_vars

\* C18: the handshake stores one ready callback at most. ready(cb) while the
\* clientId is known invokes cb at once with that id and leaves the stored
\* callback as it is; ready(cb) while it is unknown invokes nothing and puts cb
\* in the place of whatever was stored; a system:init frame invokes no ready
\* callback but the one stored last, once, and a well-formed one does invoke it.
C18_OneStoredReadyCallback ==
    [][/\ op'.name = "ready"
          => IF Truthy(clientId)
             THEN /\ Len(trace') = 1
                  /\ trace'[1].kind = "ready" /\ trace'[1].who = op'.cb
                  /\ trace'[1].data.clientId = clientId
                  /\ onReady' = onReady
             ELSE /\ trace' = <<>>
                  /\ onReady' = op'.cb
       /\ op'.name = "message"
          => LET calls == ReadyCallsIn(trace')
             IN  /\ Len(calls) <= 1
                 /\ \A i \in 1..Len(calls) : calls[i].who = onReady
                 /\ (WellFormedInit(op'.text) /\ Truthy(onReady)) => Len(calls) = 1
                 /\ onReady' = onReady
       /\ op'.name \notin {"ready", "message"}
          => /\ onReady' = onReady
             /\ ReadyCallsIn(trace') = <<>>]_vars

\* C18 witness: ready(cb) was called with the clientId known while another
\* callback was stored: cb ran at once and the stored one stayed.
C18_Witness ==
    /\ op.name = "ready"
    /\ Truthy(clientId)
    /\ Len(trace) = 1 /\ trace[1].who = op.cb /\ trace[1].data.clientId = clientId
    /\ Truthy(onReady) /\ onReady # op.cb

\* C11: in the reaction to one system:init frame the clientId is stored first,
\* then the stored ready callback runs, then the system:init handlers: every
\* such handler, and the ready callback, sees getId() return the frame's id.
C11_InitHandlersSeeClientId ==
    [][(op'.name = "message" /\ ValidFrame(op'.text)
            /\ op'.text.namespace = "system" /\ op'.text.event = "init")
          => /\ \A i \in 1..Len(trace') :
                    trace'[i].kind \in {"handler", "ready"}
                        => /\ trace'[i].getId = op'.text.data.clientId
                           /\ clientId' = op'.text.data.clientId
             /\ \A i, j \in 1..Len(trace') :
                    (trace'[i].kind = "ready" /\ trace'[j].kind = "handler") => i < j]_vars

\* C11 witness: a system:init frame ran the stored ready callback and then a
\* handler registered for system:init.
C11_Witness ==
    /\ op.name = "message"
    /\ Len(trace) >= 2
    /\ trace[1].kind = "ready" /\ trace[2].kind = "handler"
    /\ trace[2].ns = "system" /\ trace[2].ev = "init"
    /\ trace[2].getId = "a" /\ clientId = "a"

\* the callbacks registered for (ns, ev)
RegisteredFor(ns, ev) ==
    IF ns \in DOMAIN eventHandlers /\ ev \in DOMAIN eventHandlers[ns]
    THEN {eventHandlers[ns][ev][i] : i \in 1..Len(eventHandlers[ns][ev])}
    ELSE {}

\* a valid frame whose payload is what the protocol says: system:init carries
\* { clientId: string }
ConformantFrame(text) ==
    /\ ValidFrame(text)
    /\ (text.namespace = "system" /\ text.event = "init") => WellFormedInit(text)

\* C9: every inbound frame that parses and has a namespace and an event reaches
\* the registry: each handler registered for its (namespace, event) is invoked
\* exactly once with the frame's data, and no other handler is invoked; for
\* system:init frames too, whatever the stored ready callback does. (Stated for
\* the frames whose payload conforms to the protocol.)
C9_ValidFrameIsDispatched ==
    [][(op'.name = "message" /\ ConformantFrame(op'.text))
          => LET text  == op'.text
                 calls == HandlerCallsIn(trace')
             IN  /\ \A cb \in RegisteredFor(text.namespace, text.event) :
                        Cardinality({i \in 1..Len(calls) : calls[i].who = cb}) = 1
                 /\ \A i \in 1..Len(calls) :
                        /\ calls[i].who \in RegisteredFor(text.namespace, text.event)
                        /\ calls[i].ns = text.namespace
                        /\ calls[i].ev = text.event
                        /\ calls[i].data = text.data]_vars

\* C12: dispatching (namespace, event) invokes exactly the callbacks registered
\* for the pair, each once however often it was registered, a throwing callback
\* stops no other and nothing propagates; registerEvent adds its callback to
\* its pair only, and the returned function removes that callback from that
\* pair only, a second call changing nothing.
C12_DispatchInvokesRegisteredSet ==
    [][/\ (op'.name = "message" /\ ValidFrame(op'.text)
            /\ ~(op'.text.namespace = "system" /\ op'.text.event = "init"))
          => LET text  == op'.text
                 calls == HandlerCallsIn(trace')
             IN  /\ \A cb \in Callbacks :
                        Cardinality({i \in 1..Len(calls) : calls[i].who = cb})
                            = IF cb \in RegisteredFor(text.namespace, text.event)
                              THEN 1 ELSE 0
                 /\ \A i \in 1..Len(calls) : calls[i].data = text.data
                 /\ Len(trace') = Len(calls)
                 /\ thrown' = "none"
       /\ op'.name = "registerEvent"
          => \A reg \in Registrations :
                 RegisteredFor(reg[1], reg[2])' =
                     IF reg = <<op'.ns, op'.ev>>
                     THEN RegisteredFor(reg[1], reg[2]) \cup {op'.cb}
                     ELSE RegisteredFor(reg[1], reg[2])
       /\ op'.name = "unregisterEvent"
          => \A reg \in Registrations :
                 RegisteredFor(reg[1], reg[2])' =
                     IF reg = <<op'.ns, op'.ev>>
                     THEN RegisteredFor(reg[1], reg[2]) \ {op'.cb}
                     ELSE RegisteredFor(reg[1], reg[2])]_vars

\* C12 witness: a chat:msg frame was dispatched to two handlers, the first of
\* which threw.
C12_Witness ==
    /\ op.name = "message"
    /\ Len(trace) = 2
    /\ trace[1].kind = "handler" /\ trace[1].threw /\ trace[1].ns = "chat"
    /\ trace[2].kind = "handler" /\ ~trace[2].threw

\* C10: a message that does not parse, or lacks namespace or event, raises
\* nothing, invokes no handler and no ready callback, changes no state, and
\* leaves the reaction to every later frame what it would have been.
C10_MalformedFrameIsDropped ==
    [][(op'.name = "message" /\ ~ValidFrame(op'.text))
          => /\ thrown' = "none"
             /\ HandlerCallsIn(trace') = <<>>
             /\ ReadyCallsIn(trace') = <<>>
             /\ UNCHANGED <<conn, session>>
             /\ \A text \in Payloads : OnMessage(text)' = OnMessage(text)]_vars

\* C10 witness: a text that is not JSON was delivered while a ready callback
\* was stored and a handler was registered for system:init; it was only logged.
C10_Witness ==
    /\ op.name = "message" /\ ~op.text.json
    /\ Truthy(onReady)
    /\ RegisteredFor("system", "init") # {}
    /\ trace = <<ConsoleError>>

\* ======================================================================
\* Properties of send and the metadata map (SendSpec)
\* ======================================================================

\* C13: a send() while the session has no transport, or a transport that is
\* not open, throws the not-connected error, writes nothing and changes no
\* field of the session; a send() while the transport is open writes exactly
\* one frame, to that transport, within the call.
C13_SendNeedsOpenTransport ==
    [][op'.name = "send"
          => IF IsConnected
             THEN /\ Len(sent') = Len(sent) + 1
                  /\ SubSeq(sent', 1, Len(sent)) = sent
                  /\ sent'[Len(sent')].t = ws
                  /\ thrown' = "none"
             ELSE /\ thrown' = "WebSocket is not connected"
                  /\ UNCHANGED <<conn, session>>]_vars

\* C13 witness: a send() failed after disconnect(), a frame having been
\* written while the transport was open.
C13_Witness ==
    /\ op.name = "send"
    /\ thrown = "WebSocket is not connected"
    /\ userDisconnected /\ ws = NoWs
    /\ Len(sent) = 1

\* C14: the frame a send() writes has data.metadata equal to the metadata map
\* at that send, whether the caller gave no data or data with a metadata key
\* of its own; the map is the merge, in call order, of the setMetadata()
\* arguments (a later value replaces an earlier one of the same key, other keys
\* stay), only setMetadata() changes it, and no later step alters a frame that
\* was written.
C14_FrameCarriesMetadata ==
    [][/\ (op'.name = "send" /\ Len(sent') > Len(sent))
          => LET data == sent'[Len(sent')].text.data
             IN  /\ "metadata" \in DOMAIN data
                 /\ data["metadata"] = metadata
       /\ op'.name = "setMetadata"
          => /\ DOMAIN metadata' = DOMAIN metadata \cup DOMAIN op'.arg
             /\ \A k \in DOMAIN op'.arg : metadata'[k] = op'.arg[k]
             /\ \A k \in DOMAIN metadata \ DOMAIN op'.arg : metadata'[k] = metadata[k]
       /\ op'.name # "setMetadata" => metadata' = metadata
       /\ Len(sent') >= Len(sent) /\ SubSeq(sent', 1, Len(sent)) = sent]_vars

\* C14 witness: after a setMetadata() call a frame was written for a caller
\* whose data had a metadata key of its own, and a setMetadata() made since
\* replaced one key of the map and kept the other; the frame still carries the
\* map of its send.
C14_Witness ==
    /\ op.name = "setMetadata" /\ Len(sent) = 1
    /\ sent[1].text.data = [text |-> "hi", metadata |-> [a |-> "1", b |-> "2"]]
    /\ metadata = [a |-> "3", b |-> "2"]

\* ======================================================================
\* Properties of the error reaction (ErrorSpec)
\* ======================================================================

\* C17: an error event of a transport invokes the handlers registered for
\* system:error, each once, with the error as payload, throws nothing, and
\* changes nothing else: readyStates, this.ws, the connecting flag,
\* autoReconnect, the reconnect timer and the pending timers, clientId and the
\* rest of the session are as before, so no reconnect is scheduled.
C17_ErrorOnlyDispatches ==
    [][op'.name = "error"
          => /\ UNCHANGED <<conn, session>>
             /\ thrown' = "none"
             /\ Len(trace') = Cardinality(RegisteredFor("system", "error"))
             /\ \A cb \in RegisteredFor("system", "error") :
                    \E i \in 1..Len(trace') : trace'[i].who = cb
             /\ \A i \in 1..Len(trace') :
                    /\ trace'[i].kind = "handler"
                    /\ trace'[i].ns = "system" /\ trace'[i].ev = "error"
                    /\ trace'[i].data = ErrorData]_vars

\* C17 witness: the handshake of a reconnection attempt reported an error to
\* two handlers; the session is still connecting, on the same transport.
C17_Witness ==
    /\ op.name = "error"
    /\ Len(trace) = 2
    /\ op.t = ws /\ op.t > 1
    /\ transports[ws] = "CONNECTING" /\ isConnecting

\* ======================================================================
\* Properties of the session's identity (StaleCloseSpec, SessionSpec)
\* ======================================================================

\* C19: when the close event of a transport that disconnect() dropped arrives
\* after connect() made a new transport that opened and received its
\* system:init, getId() keeps returning the new clientId, no
\* system:disconnected handler is invoked and the connecting flag is as it was.
C19_StaleCloseLeavesNewSession ==
    [][(op'.name = "close" /\ op'.t # ws
            /\ ws # NoWs /\ transports[ws] = "OPEN" /\ Truthy(clientId))
          => /\ clientId' = clientId
             /\ trace' = <<>>
             /\ isConnecting' = isConnecting]_vars

\* C20: a clientId that is not null was stored by a system:init frame of the
\* transport the session holds; that transport has emitted open and has not
\* emitted close, the session is not connecting, and the session keeps that
\* transport for as long as it keeps the id.
C20_ClientIdBelongsToHeldTransport ==
    [][/\ clientId' # Null
          => /\ ws' # NoWs
             /\ transports'[ws'] \in {"OPEN", "CLOSING"}
             /\ ~isConnecting'
       /\ (clientId' # Null /\ op'.name = "message") => op'.t = ws'
       /\ (clientId' # Null /\ op'.name # "message") => ws' = ws]_vars

\* ======================================================================
\* Reconnection under the assumption that a pending timer eventually fires
\* ======================================================================
\* A transport whose handshake is under way ends it (open, or failure), and a
\* transport that is closing emits close: the transport's contract.
HandshakeEnds == \E t \in 1..Len(transports) :
                     transports[t] = "CONNECTING" /\ (OpenOn(t) \/ ClosingOn(t) \/ CloseOn(t))
ClosingEnds   == \E t \in 1..Len(transports) : transports[t] = "CLOSING" /\ CloseOn(t)

LiveSpec ==
    /\ Init /\ [][Next]_vars
    /\ WF_vars(TimerFire)
    /\ WF_vars(HandshakeEnds)
    /\ WF_vars(ClosingEnds)

ClosedWithAutoReconnect ==
    op.name = "close" /\ autoReconnect /\ Len(transports) < MaxTransports

Reconnected == op.name \in {"connect", "timer"} /\ op.created

\* onopen cancelled the pending timer, so that this timer never fires
TimerCancelled == op.name = "open" /\ op.cleared

====
